---- MODULE Spec2Model ----
(***************************************************************************)
(* Model of the web exercise page                                          *)
(* (apps/nextjs/src/app/(app)/exercises/page.tsx): its speech-comparison   *)
(* scorer, analyzeSpokenText and levenshteinDistance, and the practice     *)
(* modal that records a transcript, scores it, asks for feedback and saves *)
(* the attempt; of the attempt history it keeps in localStorage            *)
(* (exercise-storage); and of the sessions of the therapy router           *)
(* (packages/api/src/router/therapy.ts).                                   *)
(*                                                                         *)
(* A JavaScript string is a sequence of characters; a character is an atom *)
(* named by a TLA+ string: an ASCII character by itself, the letter e with *)
(* an acute accent (U+00E9) by "e_acute" and its capital (U+00C9) by       *)
(* "E_acute".  A word token is again a sequence of characters.             *)
(*                                                                         *)
(* Numbers.  The code computes its percentages in IEEE-754 doubles.  The   *)
(* model computes them in exact rational arithmetic (a numerator over a    *)
(* common denominator).  For every (T, S, matchedWords) with T, S <= 27    *)
(* the two evaluations give the same four integers; the first difference   *)
(* is at T = 28, S = 15, matchedWords = 6, far above the bounds of this    *)
(* model.  The similarity test 1 - d/L >= 0.7 agrees with                  *)
(* 10*(L - d) >= 7*L for every L < 200, including the boundary d/L = 3/10. *)
(***************************************************************************)
EXTENDS Integers, Sequences, FiniteSets, TLC

VARIABLES
    target,     \* the arguments of the latest call of a function under check
    spoken,
    result,     \* what analyzeSpokenText returned
    calls,      \* every call of analyzeSpokenText so far, with its result
    levDistance, \* what levenshteinDistance(target, spoken) returned
    activeExercise,     \* React state of ExercisesPage
    isRecording,
    isProcessing,
    practiceResult,
    liveTranscript,
    error,
    finalTranscriptRef, \* finalTranscriptRef.current
    recognition,        \* the SpeechRecognition object of recognitionRef and
                        \* what its handlers captured when it was created
    recordings,         \* how many recognitions were started
    pendingTimeouts,    \* the setTimeout callbacks of handleStopRecording
    pendingFeedback,    \* the runs of processResults waiting for the fetch
    attempts,           \* the attempts stored by saveAttempt
    SpeechRecognitionAPI, \* whether the browser has a speech recognition
    now,                \* the clock of the browser, in hours
    saveCalls,          \* the calls of saveAttempt that returned since the
                        \* storage was last empty
    db,                 \* the tables of the server: TherapySession,
                        \* ExerciseAttempt and ProgressMetric
    endSessionCalls     \* the calls of endSession, with how far each has run

scorerVars == <<target, spoken, result, calls, levDistance>>

pageVars ==
    <<activeExercise, isRecording, isProcessing, practiceResult,
      liveTranscript, error, finalTranscriptRef, recognition, recordings,
      pendingTimeouts, pendingFeedback, attempts, SpeechRecognitionAPI,
      now, saveCalls>>

serverVars == <<db, endSessionCalls>>

vars == <<scorerVars, pageVars, serverVars>>

-----------------------------------------------------------------------------
(* Characters *)

LowerLetters == {"a", "b", "c", "d", "e", "f", "g", "h", "i", "k", "l", "m",
                 "n", "o", "p", "r", "s", "t", "u", "w", "y"}

UpperLetters == {"A", "H", "W"}

\* letters outside ASCII: a French accented letter and its capital
NonAsciiLetters == {"e_acute", "E_acute"}

\* word characters without case: a digit and the underscore
OtherWordChars == {"1", "_"}

Whitespace == {" "}

Punctuation == {",", "!", "(", ")"}

\* String.prototype.toLowerCase on one character
toLowerCaseChar(c) ==
    CASE c = "A" -> "a"
      [] c = "H" -> "h"
      [] c = "W" -> "w"
      [] c = "E_acute" -> "e_acute"
      [] OTHER -> c

\* the regular expression class \w (no u flag: ASCII letters, digits, _)
IsWordChar(c) == c \in LowerLetters \cup UpperLetters \cup OtherWordChars

\* the regular expression class \s
IsSpaceChar(c) == c \in Whitespace

-----------------------------------------------------------------------------
(* Tokenizer: s.toLowerCase().replace(/[^\w\s]/g, '').split(/\s+/).filter(Boolean) *)

\* the tokenizer without its toLowerCase step
toLowerCase_none(s) == s

toLowerCase(s) == [i \in 1..Len(s) |-> toLowerCaseChar(s[i])]

KeepChar(c) == IsWordChar(c) \/ IsSpaceChar(c)

\* replace(/[^\w\s]/g, '')
stripNonWord(s) == SelectSeq(s, KeepChar)

\* split(/\s+/): a run of whitespace separates two pieces; a leading or a
\* trailing run leaves an empty piece, and the empty string gives [""]
RECURSIVE splitFrom(_, _, _, _)
splitFrom(s, i, cur, acc) ==
    IF i > Len(s) THEN Append(acc, cur)
    ELSE IF IsSpaceChar(s[i])
         THEN IF i > 1 /\ IsSpaceChar(s[i-1])
              THEN splitFrom(s, i + 1, cur, acc)
              ELSE splitFrom(s, i + 1, <<>>, Append(acc, cur))
         ELSE splitFrom(s, i + 1, Append(cur, s[i]), acc)

split(s) == splitFrom(s, 1, <<>>, <<>>)

\* Boolean(piece): the empty string is falsy
Truthy(piece) == piece # <<>>

\* the tokenizer without its filter(Boolean) step
filterBoolean_none(pieces) == pieces

filterBoolean(pieces) == SelectSeq(pieces, Truthy)

tokenize(s) == filterBoolean(split(stripNonWord(toLowerCase(s))))

-----------------------------------------------------------------------------
(* levenshteinDistance: the dynamic-programming table, one row at a time.  *)
(* A row is a sequence of n+1 numbers; row[j+1] is dp[i][j].               *)

Max(x, y) == IF x >= y THEN x ELSE y

Min(x, y) == IF x <= y THEN x ELSE y

Abs(x) == IF x >= 0 THEN x ELSE 0 - x

Min3(x, y, z) == IF x <= y THEN (IF x <= z THEN x ELSE z)
                 ELSE (IF y <= z THEN y ELSE z)

\* firstRow left as Array(n + 1).fill(0) leaves it
firstRow_zero(n) == [k \in 1..(n + 1) |-> 0]

\* dp[0][j] = j
firstRow(n) == [k \in 1..(n + 1) |-> k - 1]

\* fillRow without the diagonal (substitution) term of the minimum
RECURSIVE fillRow_noSubstitution(_, _, _, _, _)
fillRow_noSubstitution(str1, str2, i, prevRow, row) ==
    LET j == Len(row)
    IN  IF j > Len(str2) THEN row
        ELSE LET v == IF str1[i] = str2[j]
                      THEN prevRow[j]
                      ELSE 1 + Min(prevRow[j + 1], row[j])
             IN  fillRow_noSubstitution(str1, str2, i, prevRow, Append(row, v))

\* the inner loop over j for a fixed i; row holds dp[i][0 .. Len(row)-1]
RECURSIVE fillRow(_, _, _, _, _)
fillRow(str1, str2, i, prevRow, row) ==
    LET j == Len(row)
    IN  IF j > Len(str2) THEN row
        ELSE LET v == IF str1[i] = str2[j]
                      THEN prevRow[j]
                      ELSE 1 + Min3(prevRow[j + 1], row[j], prevRow[j])
             IN  fillRow(str1, str2, i, prevRow, Append(row, v))

\* fillTable without dp[i][0] = i: every row starts with the 0 of fill(0)
RECURSIVE fillTable_noFirstColumn(_, _, _, _)
fillTable_noFirstColumn(str1, str2, i, prevRow) ==
    IF i > Len(str1) THEN prevRow
    ELSE fillTable_noFirstColumn(str1, str2, i + 1,
                                 fillRow(str1, str2, i, prevRow, <<0>>))

\* the outer loop over i; dp[i][0] = i starts each row
RECURSIVE fillTable(_, _, _, _)
fillTable(str1, str2, i, prevRow) ==
    IF i > Len(str1) THEN prevRow
    ELSE fillTable(str1, str2, i + 1, fillRow(str1, str2, i, prevRow, <<i>>))

levenshteinDistance(str1, str2) ==
    fillTable(str1, str2, 1, firstRow(Len(str2)))[Len(str2) + 1]

-----------------------------------------------------------------------------
(* analyzeSpokenText *)

MISSING == <<"(", "m", "i", "s", "s", "i", "n", "g", ")">>

EXTRA == <<"(", "e", "x", "t", "r", "a", ")">>

\* Math.round of the non-negative rational num/den: halves go up
Round(num, den) == (2 * num + den) \div (2 * den)

\* the similarity threshold 0.7 as the fraction ThresholdNum / ThresholdDen
ThresholdNum == 7

ThresholdDen == 10

\* the weights 0.4, 0.35 and 0.25 in hundredths
ClarityWeight == 40

FluencyWeight == 35

PaceWeight == 25

\* the penalty factor of a word-count difference
PenaltyFactor == 30

\* words[i] ?? '': an index past the end reads undefined
wordAt(words, i) == IF i <= Len(words) THEN words[i] ELSE <<>>

\* isMatch with similarity = distance / maxLen (the "1 -" forgotten)
isMatch_noComplement(targetWord, spokenWord) ==
    LET distance == levenshteinDistance(targetWord, spokenWord)
        maxLen   == Max(Len(targetWord), Len(spokenWord))
    IN  IF maxLen > 0
        THEN ThresholdDen * distance >= ThresholdNum * maxLen
        ELSE FALSE

\* isMatch with similarity > 0.7 in place of >=
isMatch_strict(targetWord, spokenWord) ==
    LET distance == levenshteinDistance(targetWord, spokenWord)
        maxLen   == Max(Len(targetWord), Len(spokenWord))
    IN  IF maxLen > 0
        THEN ThresholdDen * (maxLen - distance) > ThresholdNum * maxLen
        ELSE FALSE

\* similarity = maxLen > 0 ? 1 - distance / maxLen : 0;  similarity >= 0.7
isMatch(targetWord, spokenWord) ==
    LET distance == levenshteinDistance(targetWord, spokenWord)
        maxLen   == Max(Len(targetWord), Len(spokenWord))
    IN  IF maxLen > 0
        THEN ThresholdDen * (maxLen - distance) >= ThresholdNum * maxLen
        ELSE FALSE

\* targetEntry without the || '(missing)' of the spoken field
targetEntry_noMissing(targetWords, spokenWords, i) ==
    LET targetWord == wordAt(targetWords, i)
        spokenWord == wordAt(spokenWords, i)
    IN  [target |-> targetWord,
         spoken |-> spokenWord,
         match  |-> isMatch(targetWord, spokenWord)]

\* targetEntry that accepts a match with the spoken word at any index
targetEntry_anywhere(targetWords, spokenWords, i) ==
    LET targetWord == wordAt(targetWords, i)
        spokenWord == wordAt(spokenWords, i)
    IN  [target |-> targetWord,
         spoken |-> IF spokenWord # <<>> THEN spokenWord ELSE MISSING,
         match  |-> \E j \in 1..Len(spokenWords) :
                        isMatch(targetWord, spokenWords[j])]

\* targetEntry that counts a target word without spoken word as matched
targetEntry_matchMissing(targetWords, spokenWords, i) ==
    LET targetWord == wordAt(targetWords, i)
        spokenWord == wordAt(spokenWords, i)
    IN  [target |-> targetWord,
         spoken |-> IF spokenWord # <<>> THEN spokenWord ELSE MISSING,
         match  |-> spokenWord = <<>> \/ isMatch(targetWord, spokenWord)]

\* the entry the first loop pushes at index i
targetEntry(targetWords, spokenWords, i) ==
    LET targetWord == wordAt(targetWords, i)
        spokenWord == wordAt(spokenWords, i)
    IN  [target |-> targetWord,
         spoken |-> IF spokenWord # <<>> THEN spokenWord ELSE MISSING,
         match  |-> isMatch(targetWord, spokenWord)]

\* extraEntry that leaves the target field empty
extraEntry_noSentinel(spokenWords, i) ==
    [target |-> <<>>, spoken |-> wordAt(spokenWords, i), match |-> FALSE]

\* extraEntry that reads the spoken word one index too early
extraEntry_shifted(spokenWords, i) ==
    [target |-> EXTRA, spoken |-> wordAt(spokenWords, i - 1), match |-> FALSE]

\* the entry the second loop pushes at index i
extraEntry(spokenWords, i) ==
    [target |-> EXTRA, spoken |-> wordAt(spokenWords, i), match |-> FALSE]

\* wordAnalysis without the second loop
wordAnalysis_noExtra(targetWords, spokenWords) ==
    [i \in 1..Len(targetWords) |-> targetEntry(targetWords, spokenWords, i)]

wordAnalysis(targetWords, spokenWords) ==
    [i \in 1..Max(Len(targetWords), Len(spokenWords)) |->
        IF i <= Len(targetWords)
        THEN targetEntry(targetWords, spokenWords, i)
        ELSE extraEntry(spokenWords, i)]

\* matchedWords: incremented in the first loop only
countMatched(targetWords, spokenWords) ==
    Cardinality({i \in 1..Len(targetWords) :
                    isMatch(wordAt(targetWords, i), wordAt(spokenWords, i))})

\* computeScores without the Math.max(0, ...) of the fluency
computeScores_noClamp(T, S, matchedWords) ==
    LET den           == Max(T, 1)
        wordAccuracy  == IF T > 0 THEN 100 * matchedWords ELSE 0
        clarity       == Round(wordAccuracy, den)
        wordCountDiff == Abs(T - S)
        penalty       == PenaltyFactor * wordCountDiff
        fluency       == Round(wordAccuracy - penalty, den)
        pace          == IF S >= T THEN 100
                         ELSE Round(Min(100 * T, 100 * S), T)
        overall       == Round(ClarityWeight * clarity + FluencyWeight * fluency
                                 + PaceWeight * pace, 100)
    IN  [overall |-> overall, clarity |-> clarity,
         pace |-> pace, fluency |-> fluency]

\* computeScores with Math.floor for the overall score
computeScores_floorOverall(T, S, matchedWords) ==
    LET den           == Max(T, 1)
        wordAccuracy  == IF T > 0 THEN 100 * matchedWords ELSE 0
        clarity       == Round(wordAccuracy, den)
        wordCountDiff == Abs(T - S)
        penalty       == PenaltyFactor * wordCountDiff
        fluency       == Round(Max(0, wordAccuracy - penalty), den)
        pace          == IF S >= T THEN 100
                         ELSE Round(Min(100 * T, 100 * S), T)
        overall       == (ClarityWeight * clarity + FluencyWeight * fluency
                             + PaceWeight * pace) \div 100
    IN  [overall |-> overall, clarity |-> clarity,
         pace |-> pace, fluency |-> fluency]

\* computeScores with spokenWords.length > targetWords.length in the pace
computeScores_strictPace(T, S, matchedWords) ==
    LET den           == Max(T, 1)
        wordAccuracy  == IF T > 0 THEN 100 * matchedWords ELSE 0
        clarity       == Round(wordAccuracy, den)
        wordCountDiff == Abs(T - S)
        penalty       == PenaltyFactor * wordCountDiff
        fluency       == Round(Max(0, wordAccuracy - penalty), den)
        pace          == IF S > T THEN 100
                         ELSE Round(Min(100 * den, 100 * S), den)
        overall       == Round(ClarityWeight * clarity + FluencyWeight * fluency
                                 + PaceWeight * pace, 100)
    IN  [overall |-> overall, clarity |-> clarity,
         pace |-> pace, fluency |-> fluency]

\* computeScores with the word-count difference taken relative to the
\* number of spoken words
computeScores_penaltyOverSpoken(T, S, matchedWords) ==
    LET den           == Max(T, 1)
        sden          == Max(S, 1)
        wordAccuracy  == IF T > 0 THEN 100 * matchedWords ELSE 0
        clarity       == Round(wordAccuracy, den)
        wordCountDiff == Abs(T - S)
        penalty       == PenaltyFactor * wordCountDiff
        fluency       == Round(Max(0, wordAccuracy * sden - penalty * den),
                               den * sden)
        pace          == IF S >= T THEN 100
                         ELSE Round(Min(100 * T, 100 * S), T)
        overall       == Round(ClarityWeight * clarity + FluencyWeight * fluency
                                 + PaceWeight * pace, 100)
    IN  [overall |-> overall, clarity |-> clarity,
         pace |-> pace, fluency |-> fluency]

\* computeScores with the accuracy taken from the words that did not match
computeScores_errorRate(T, S, matchedWords) ==
    LET den           == Max(T, 1)
        wordAccuracy  == IF T > 0 THEN 100 * (T - matchedWords) ELSE 0
        clarity       == Round(wordAccuracy, den)
        wordCountDiff == Abs(T - S)
        penalty       == PenaltyFactor * wordCountDiff
        fluency       == Round(Max(0, wordAccuracy - penalty), den)
        pace          == IF S >= T THEN 100
                         ELSE Round(Min(100 * T, 100 * S), T)
        overall       == Round(ClarityWeight * clarity + FluencyWeight * fluency
                                 + PaceWeight * pace, 100)
    IN  [overall |-> overall, clarity |-> clarity,
         pace |-> pace, fluency |-> fluency]

\* computeScores with the fluency penalty added instead of subtracted
computeScores_penaltyAdded(T, S, matchedWords) ==
    LET den           == Max(T, 1)
        wordAccuracy  == IF T > 0 THEN 100 * matchedWords ELSE 0
        clarity       == Round(wordAccuracy, den)
        wordCountDiff == Abs(T - S)
        penalty       == PenaltyFactor * wordCountDiff
        fluency       == Round(Max(0, wordAccuracy + penalty), den)
        pace          == IF S >= T THEN 100
                         ELSE Round(Min(100 * T, 100 * S), T)
        overall       == Round(ClarityWeight * clarity + FluencyWeight * fluency
                                 + PaceWeight * pace, 100)
    IN  [overall |-> overall, clarity |-> clarity,
         pace |-> pace, fluency |-> fluency]

computeScores(T, S, matchedWords) ==
    LET den           == Max(T, 1)
        \* wordAccuracy and fluencyPenalty as numerators over den
        wordAccuracy  == IF T > 0 THEN 100 * matchedWords ELSE 0
        clarity       == Round(wordAccuracy, den)
        wordCountDiff == Abs(T - S)
        penalty       == PenaltyFactor * wordCountDiff
        fluency       == Round(Max(0, wordAccuracy - penalty), den)
        pace          == IF S >= T THEN 100
                         ELSE Round(Min(100 * T, 100 * S), T)
        overall       == Round(ClarityWeight * clarity + FluencyWeight * fluency
                                 + PaceWeight * pace, 100)
    IN  [overall |-> overall, clarity |-> clarity,
         pace |-> pace, fluency |-> fluency]

\* analyzeSpokenText with word_analysis kept outside the function and never
\* emptied: the entries of the call before stay in front
analyzeSpokenText_sharedArray(t, s) ==
    LET targetWords == tokenize(t)
        spokenWords == tokenize(s)
    IN  [scores |-> computeScores(Len(targetWords), Len(spokenWords),
                                  countMatched(targetWords, spokenWords)),
         word_analysis |-> result.word_analysis
                              \o wordAnalysis(targetWords, spokenWords)]

analyzeSpokenText(t, s) ==
    LET targetWords == tokenize(t)
        spokenWords == tokenize(s)
    IN  [scores |-> computeScores(Len(targetWords), Len(spokenWords),
                                  countMatched(targetWords, spokenWords)),
         word_analysis |-> wordAnalysis(targetWords, spokenWords)]

-----------------------------------------------------------------------------
(* Inputs *)

\* longest target and longest transcript of the exhaustive part
MaxTargetLen == 3

MaxSpokenLen == 3

\* the characters of the exhaustive part: two letters, the blank and a
\* punctuation character
InputChars == {"a", "b", " ", ","}

StringsOver(chars, n) == UNION {[1..k -> chars] : k \in 0..n}

think == <<"t", "h", "i", "n", "k">>

sink == <<"s", "i", "n", "k">>

helloWorld == <<"h", "e", "l", "l", "o", " ", "w", "o", "r", "l", "d">>

HelloWorldPunct ==
    <<"H", "e", "l", "l", "o", ",", " ", "W", "o", "r", "l", "d", "!">>

goHomeNow == <<"g", "o", " ", "h", "o", "m", "e", " ", "n", "o", "w">>

goHome == <<"g", "o", " ", "h", "o", "m", "e">>

go == <<"g", "o">>

\* goHomeNow with its first word dropped
homeNow == <<"h", "o", "m", "e", " ", "n", "o", "w">>

\* a French word with an accented letter
cafe == <<"c", "a", "f", "e_acute">>

goHomeNowPleaseHurry ==
    goHomeNow \o <<" ", "p", "l", "e", "a", "s", "e", " ", "h", "u", "r", "r", "y">>

\* two ten-letter words three substitutions apart: similarity exactly 0.7
tenA == <<"a", "a", "a", "a", "a", "a", "a", "a", "a", "a">>

sevenAthreeB == <<"a", "a", "a", "a", "a", "a", "a", "b", "b", "b">>

\* four substitutions apart from tenA: similarity 0.6
sixAfourB == <<"a", "a", "a", "a", "a", "a", "b", "b", "b", "b">>

NamedPhrases == {think, sink, helloWorld, HelloWorldPunct, go, goHome,
                 homeNow, goHomeNow,
                 goHomeNowPleaseHurry, tenA, sevenAthreeB, sixAfourB}

Targets == StringsOver(InputChars, MaxTargetLen) \cup NamedPhrases

Transcripts == StringsOver(InputChars, MaxSpokenLen) \cup NamedPhrases

\* the inputs of the normalisation runs: every string of up to MaxNormLen
\* characters, upper case included, against a short or a named other input
MaxNormLen == 3

NormChars == {"a", "b", "A", " ", ","}

NormPhrases == {helloWorld, HelloWorldPunct, goHome, cafe}

NormStrings == StringsOver(NormChars, MaxNormLen) \cup NormPhrases

ShortStrings == StringsOver(NormChars, 1) \cup NormPhrases

\* no call has returned yet
NoResult == [scores |-> [overall |-> 0 - 1, clarity |-> 0 - 1,
                         pace |-> 0 - 1, fluency |-> 0 - 1],
             word_analysis |-> <<>>]

\* levenshteinDistance has not returned yet
NoDistance == 0 - 1

\* the inputs of a run of calls, and the longest run
CallInputs == {<<>>, <<"a">>, <<"b">>, <<"a", " ", "b">>}

MaxCalls == 3

\* the inputs of levenshteinDistance alone: every string of up to
\* MaxDistLen letters, the empty one included
MaxDistLen == 4

DistChars == {"a", "b"}

DistStrings == StringsOver(DistChars, MaxDistLen) \cup {think, sink}

-----------------------------------------------------------------------------
(* The state of the page *)

\* useState(null) of activeExercise, practiceResult and error
NoExercise == [id |-> "null", target_text |-> <<>>]

NoPracticeResult ==
    [transcription |-> <<>>, target_text |-> <<>>, scores |-> NoResult.scores,
     ai_feedback |-> "null", word_analysis |-> <<>>]

NoError == "null"

\* recognitionRef.current before the first startRecording
NoRecognition ==
    [phase |-> "none", isRecording |-> FALSE, activeExercise |-> NoExercise,
     liveTranscript |-> <<>>, results |-> 0]

\* the tables before any row is inserted
EmptyTables == [TherapySession |-> <<>>, ExerciseAttempt |-> <<>>,
                ProgressMetric |-> <<>>]

\* the server no client has called
ServerIdle ==
    /\ db = EmptyTables
    /\ endSessionCalls = <<>>

\* the page as ExercisesPage first renders it
FirstRender ==
    /\ activeExercise = NoExercise
    /\ isRecording = FALSE
    /\ isProcessing = FALSE
    /\ practiceResult = NoPracticeResult
    /\ liveTranscript = <<>>
    /\ error = NoError
    /\ finalTranscriptRef = <<>>
    /\ recognition = NoRecognition
    /\ recordings = 0
    /\ pendingTimeouts = <<>>
    /\ pendingFeedback = <<>>
    /\ attempts = <<>>
    /\ now = 0
    /\ saveCalls = 0
    /\ ServerIdle

\* the page nobody touches during the runs of the scorer alone
PageIdle ==
    /\ FirstRender
    /\ SpeechRecognitionAPI = TRUE

-----------------------------------------------------------------------------
(* The scorer applied to a pair of inputs *)

\* nothing has been called yet
NothingCalled ==
    /\ result = NoResult
    /\ calls = <<>>
    /\ levDistance = NoDistance

Init ==
    /\ target \in Targets
    /\ spoken \in Transcripts
    /\ NothingCalled
    /\ PageIdle

\* what a call leaves in the history
callRecord(t, s, r) == [target |-> t, spoken |-> s, result |-> r]

\* one call analyzeSpokenText(target, spoken)
Analyze ==
    /\ result = NoResult
    /\ result' = analyzeSpokenText(target, spoken)
    /\ calls' = Append(calls, callRecord(target, spoken, result'))
    /\ UNCHANGED <<target, spoken, levDistance>>
    /\ UNCHANGED <<pageVars, serverVars>>

Next == Analyze

Spec == Init /\ [][Next]_vars

\* the same call, on the inputs of the normalisation runs
InitNormalize ==
    /\ \/ target \in NormStrings /\ spoken \in ShortStrings
       \/ target \in ShortStrings /\ spoken \in NormStrings
    /\ NothingCalled
    /\ PageIdle

SpecNormalize == InitNormalize /\ [][Next]_vars

\* a run of calls, one after the other, each on its own arguments
InitCalls ==
    /\ target = <<>>
    /\ spoken = <<>>
    /\ NothingCalled
    /\ PageIdle

Call(t, s) ==
    /\ Len(calls) < MaxCalls
    /\ target' = t
    /\ spoken' = s
    /\ result' = analyzeSpokenText(t, s)
    /\ calls' = Append(calls, callRecord(t, s, result'))
    /\ UNCHANGED levDistance
    /\ UNCHANGED <<pageVars, serverVars>>

NextCalls == \E t \in CallInputs, s \in CallInputs : Call(t, s)

SpecCalls == InitCalls /\ [][NextCalls]_vars

\* one call levenshteinDistance(target, spoken) on two strings
InitDistance ==
    /\ target \in DistStrings
    /\ spoken \in DistStrings
    /\ NothingCalled
    /\ PageIdle

Distance ==
    /\ levDistance = NoDistance
    /\ levDistance' = levenshteinDistance(target, spoken)
    /\ UNCHANGED <<target, spoken, result, calls>>
    /\ UNCHANGED <<pageVars, serverVars>>

NextDistance == Distance

SpecDistance == InitDistance /\ [][NextDistance]_vars

returned == result # NoResult

-----------------------------------------------------------------------------
(* Properties of the scorer *)

\* the token counts of the two inputs and the entries of the returned alignment
T == Len(tokenize(target))

S == Len(tokenize(spoken))

entries == result.word_analysis

ScoreNames == {"overall", "clarity", "pace", "fluency"}

\* C1: for every pair of inputs, either or both empty included, the call
\* returns a complete result whose four scores are integers from 0 to 100.
C1_ScoresInRange ==
    returned =>
        /\ DOMAIN result = {"scores", "word_analysis"}
        /\ DOMAIN result.scores = ScoreNames
        /\ \A f \in ScoreNames : result.scores[f] \in 0..100
        /\ \A i \in 1..Len(entries) :
              /\ DOMAIN entries[i] = {"target", "spoken", "match"}
              /\ entries[i].match \in BOOLEAN

C1_Witness ==
    /\ returned
    /\ target = <<>>
    /\ spoken = <<>>
    /\ result.scores.overall = 25

\* C2: identity: a phrase with at least one token, scored against itself,
\* gets 100 for all four scores and every alignment entry matches.
C2_Identity ==
    (returned /\ target = spoken /\ T >= 1) =>
        /\ \A f \in ScoreNames : result.scores[f] = 100
        /\ Len(entries) = T
        /\ \A i \in 1..Len(entries) : entries[i].match

C2_Witness ==
    /\ returned
    /\ target = helloWorld
    /\ spoken = helloWorld
    /\ Len(entries) = 2
    /\ result.scores.overall = 100

\* the spoken token an alignment entry was compared with
comparedWith(e) == IF e.spoken = MISSING THEN <<>> ELSE e.spoken

\* C3: a target/spoken token pair is a match if and only if the longer of
\* the two has a positive length maxLen and 10*(maxLen - distance) >=
\* 7*maxLen; similarity exactly 0.70 is a match, two empty tokens are not.
C3_MatchThreshold ==
    /\ ~isMatch(<<>>, <<>>)
    /\ returned =>
          \A i \in 1..T :
              LET a        == entries[i].target
                  b        == comparedWith(entries[i])
                  maxLen   == Max(Len(a), Len(b))
                  distance == levenshteinDistance(a, b)
              IN  entries[i].match <=>
                     (maxLen > 0 /\ 10 * (maxLen - distance) >= 7 * maxLen)

\* a pair at exactly 0.70: ten letters, distance three
C3_Witness ==
    /\ returned
    /\ target = tenA
    /\ spoken = sevenAthreeB
    /\ levenshteinDistance(entries[1].target, entries[1].spoken) = 3
    /\ entries[1].match

\* C4 as stated: for "think" against "sink" the distance is 1 and the
\* word is a match with clarity 100.
C4_Original ==
    (returned /\ target = think /\ spoken = sink) =>
        /\ levenshteinDistance(entries[1].target, entries[1].spoken) = 1
        /\ entries[1].match
        /\ result.scores.clarity = 100

\* C4 (amended): for target "think" and transcript "sink" the edit distance
\* is 2 (one substitution and one deletion), the similarity is 3/5 = 0.6,
\* below 0.70, and the single alignment entry has match = false; clarity
\* is 0.
C4_ThinkSink ==
    (returned /\ target = think /\ spoken = sink) =>
        /\ Len(entries) = 1
        /\ entries[1].target = think
        /\ entries[1].spoken = sink
        /\ levenshteinDistance(entries[1].target, entries[1].spoken) = 2
        /\ 10 * (5 - 2) < 7 * 5
        /\ ~entries[1].match
        /\ result.scores.clarity = 0

C4_Witness ==
    /\ returned
    /\ target = think
    /\ spoken = sink
    /\ Len(entries) = 1

\* C5: for every target and every non-empty transcript the alignment has
\* exactly max(T, S) entries.
C5_AlignmentLength ==
    (returned /\ spoken # <<>>) => Len(entries) = Max(T, S)

C5_Witness ==
    /\ returned
    /\ target = goHomeNow
    /\ spoken = goHomeNowPleaseHurry
    /\ Len(entries) = 5

\* C6 as stated: with no target token the alignment is empty, whatever the
\* transcript.
C6_Original ==
    (returned /\ T = 0) => Len(entries) = 0

\* C6 (amended): with no target token the alignment has S entries, one
\* "(extra)" entry with match = false per spoken token; it is empty only
\* when the transcript has no token either.
C6_EmptyTargetAlignment ==
    (returned /\ T = 0) =>
        /\ Len(entries) = S
        /\ \A i \in 1..Len(entries) :
              /\ entries[i].target = EXTRA
              /\ entries[i].spoken = tokenize(spoken)[i]
              /\ ~entries[i].match

C6_Witness ==
    /\ returned
    /\ T = 0
    /\ S = 2
    /\ Len(entries) = 2

\* r is num/den rounded to the nearest integer, halves up
IsRounded(r, num, den) ==
    /\ 2 * den * r <= 2 * num + den
    /\ 2 * num + den < 2 * den * (r + 1)

\* the number of entries with match = true
matched == Cardinality({i \in 1..Len(entries) : entries[i].match})

C8_EmptyTranscript ==
    (returned /\ T >= 1 /\ S = 0) =>
        /\ \A f \in ScoreNames : result.scores[f] = 0
        /\ Len(entries) = T
        /\ \A i \in 1..Len(entries) :
              /\ entries[i].target = tokenize(target)[i]
              /\ entries[i].spoken = MISSING
              /\ ~entries[i].match

C8_Witness ==
    /\ returned
    /\ target = goHomeNow
    /\ spoken = <<>>
    /\ Len(entries) = 3

\* C9: a target without tokens: for every transcript clarity = 0 and
\* pace = 100, hence fluency = 0 and overall = 25.
C9_EmptyTarget ==
    (returned /\ T = 0) =>
        result.scores = [overall |-> 25, clarity |-> 0, pace |-> 100,
                         fluency |-> 0]

C9_Witness ==
    /\ returned
    /\ target = <<",">>
    /\ spoken = goHomeNow
    /\ result.scores.pace = 100

\* the other case of a letter
swapCaseChar(c) ==
    CASE c = "a" -> "A"
      [] c = "h" -> "H"
      [] c = "w" -> "W"
      [] c = "e_acute" -> "E_acute"
      [] c = "E_acute" -> "e_acute"
      [] c \in UpperLetters -> toLowerCaseChar(c)
      [] OTHER -> c

\* s with the case of one letter changed
CaseChanged(s) == {[s EXCEPT ![i] = swapCaseChar(s[i])] : i \in 1..Len(s)}

\* s with one punctuation character inserted anywhere
PunctuationInserted(s) ==
    {SubSeq(s, 1, i) \o <<p>> \o SubSeq(s, i + 1, Len(s)) :
        i \in 0..Len(s), p \in Punctuation}

\* s with one of its punctuation characters deleted
PunctuationDeleted(s) ==
    {SubSeq(s, 1, i - 1) \o SubSeq(s, i + 1, Len(s)) :
        i \in {k \in 1..Len(s) : s[k] \in Punctuation}}

Variants(s) ==
    CaseChanged(s) \cup PunctuationInserted(s) \cup PunctuationDeleted(s)

\* C10: changing the case of a letter, or inserting or deleting a
\* punctuation character, anywhere in the target or in the transcript,
\* changes neither the scores nor the alignment; ("Hello, World!",
\* "hello world") scores as ("hello world", "hello world").
C10_CasePunctuationInsensitive ==
    returned =>
        /\ \A v \in Variants(target) : analyzeSpokenText(v, spoken) = result
        /\ \A v \in Variants(spoken) : analyzeSpokenText(target, v) = result
        /\ (target = HelloWorldPunct /\ spoken = helloWorld) =>
               result = analyzeSpokenText(helloWorld, helloWorld)

C10_Witness ==
    /\ returned
    /\ target = HelloWorldPunct
    /\ spoken = helloWorld
    /\ Len(entries) = 2
    /\ entries[1].target = <<"h", "e", "l", "l", "o">>
    /\ result.scores.overall = 100

\* s with one whitespace character added in front, at the end or next to
\* a whitespace character, or with one such character removed
WhitespaceChanged(s) ==
    {<<w>> \o s : w \in Whitespace}
    \cup {s \o <<w>> : w \in Whitespace}
    \cup {SubSeq(s, 1, i) \o <<w>> \o SubSeq(s, i + 1, Len(s)) :
              i \in {k \in 1..Len(s) : IsSpaceChar(s[k])}, w \in Whitespace}
    \cup {SubSeq(s, 1, i - 1) \o SubSeq(s, i + 1, Len(s)) :
              i \in {k \in 1..Len(s) :
                        /\ IsSpaceChar(s[k])
                        /\ \/ k = 1
                           \/ k = Len(s)
                           \/ IsSpaceChar(s[k - 1])
                           \/ IsSpaceChar(s[k + 1])}}

NoEmptyToken(words) == \A i \in 1..Len(words) : words[i] # <<>>

\* C11: the tokenizer never produces an empty token: leading whitespace,
\* trailing whitespace and runs of whitespace in the target or in the
\* transcript change neither the token sequences nor the alignment nor the
\* scores.
C11_WhitespaceInsensitive ==
    returned =>
        /\ NoEmptyToken(tokenize(target))
        /\ NoEmptyToken(tokenize(spoken))
        /\ \A v \in WhitespaceChanged(target) :
              /\ tokenize(v) = tokenize(target)
              /\ analyzeSpokenText(v, spoken) = result
        /\ \A v \in WhitespaceChanged(spoken) :
              /\ tokenize(v) = tokenize(spoken)
              /\ analyzeSpokenText(target, v) = result

C11_Witness ==
    /\ returned
    /\ target = <<" ", "a", " ">>
    /\ spoken = <<"a">>
    /\ Len(entries) = 1
    /\ result.scores.overall = 100

\* the tokens of a phrase, one after the other
RECURSIVE Flatten(_)
Flatten(words) ==
    IF words = <<>> THEN <<>> ELSE Head(words) \o Flatten(Tail(words))

\* a letter, a digit or the underscore, letters outside ASCII included
IsLetterDigitUnderscore(c) == IsWordChar(c) \/ c \in NonAsciiLetters

\* C12: the tokenizer removes exactly the characters that are neither
\* letters, digits, underscore nor whitespace: every letter of the input,
\* a letter outside ASCII such as an accented letter included, is kept in
\* its token.
C12_LettersKept ==
    returned =>
        /\ Flatten(tokenize(target)) =
              SelectSeq(toLowerCase(target), IsLetterDigitUnderscore)
        /\ Flatten(tokenize(spoken)) =
              SelectSeq(toLowerCase(spoken), IsLetterDigitUnderscore)

\* every target word matches the spoken word at its index
allTargetWordsMatch == \A i \in 1..T : entries[i].match

C14_ExtraEntries ==
    returned =>
        /\ \A i \in (T + 1)..S :
              entries[i] = [target |-> EXTRA,
                            spoken |-> tokenize(spoken)[i],
                            match  |-> FALSE]
        /\ matched \in 0..T
        /\ matched = Cardinality({i \in 1..T : entries[i].match})
        /\ T >= 1 => IsRounded(result.scores.clarity, 100 * matched, T)

C14_Witness ==
    /\ returned
    /\ target = goHome
    /\ spoken = goHomeNow
    /\ entries[3] = [target |-> EXTRA, spoken |-> <<"n", "o", "w">>,
                     match |-> FALSE]
    /\ matched = 2

\* C15: the alignment is positional: entry i < T has target token i and is
\* compared with spoken token i only (with the empty string when i >= S);
\* its match flag is the one the pair gets when scored alone, so dropping
\* an early word of the transcript shifts every later comparison.
C15_Positional ==
    returned =>
        /\ \A i \in 1..T :
              LET a == tokenize(target)[i]
                  b == wordAt(tokenize(spoken), i)
              IN  /\ entries[i].target = a
                  /\ entries[i].spoken = (IF i <= S THEN b ELSE MISSING)
                  /\ entries[i].match =
                        analyzeSpokenText(a, b).word_analysis[1].match
        /\ (target = goHomeNow /\ spoken = homeNow) => matched = 0

C15_Witness ==
    /\ returned
    /\ target = goHomeNow
    /\ spoken = homeNow
    /\ entries[2].target = <<"h", "o", "m", "e">>
    /\ entries[2].spoken = <<"n", "o", "w">>
    /\ ~entries[2].match

\* C16: monotonicity: with T and S fixed, more matched positions never
\* lower clarity or overall.
C16_Monotone ==
    returned =>
        \A m2 \in 0..Min(T, S) :
            LET other == computeScores(T, S, m2)
            IN  /\ m2 >= matched =>
                      /\ other.clarity >= result.scores.clarity
                      /\ other.overall >= result.scores.overall
                /\ m2 <= matched =>
                      /\ other.clarity <= result.scores.clarity
                      /\ other.overall <= result.scores.overall

C16_Witness ==
    /\ returned
    /\ T = 2
    /\ S = 2
    /\ matched = 1
    /\ result.scores.clarity = 50

RECURSIVE EditDistance(_, _)
EditDistance(a, b) ==
    IF a = <<>> THEN Len(b)
    ELSE IF b = <<>> THEN Len(a)
    ELSE LET a1 == SubSeq(a, 1, Len(a) - 1)
             b1 == SubSeq(b, 1, Len(b) - 1)
         IN  Min3(EditDistance(a1, b) + 1,
                  EditDistance(a, b1) + 1,
                  EditDistance(a1, b1)
                      + (IF a[Len(a)] = b[Len(b)] THEN 0 ELSE 1))

\* C18: levenshteinDistance(a, b) is, for all strings a and b, the empty
\* ones included, the least number of single-character insertions,
\* deletions and substitutions that turn a into b.
C18_EditDistance ==
    levDistance # NoDistance =>
        /\ levDistance = EditDistance(target, spoken)
        /\ levDistance \in Abs(Len(target) - Len(spoken))
                          ..Max(Len(target), Len(spoken))
        /\ (levDistance = 0) <=> (target = spoken)

C18_Witness ==
    /\ levDistance = 3
    /\ target = <<"a", "b", "a", "b">>
    /\ spoken = <<"b">>

\* C19: levenshteinDistance is symmetric.
C19_Symmetric ==
    levDistance # NoDistance => levDistance = levenshteinDistance(spoken, target)

C19_Witness ==
    /\ levDistance = 2
    /\ target = sink
    /\ spoken = think

-----------------------------------------------------------------------------
(* The practice modal *)

\* the exercises of the list, by id and target phrase
Exercises ==
    {[id |-> "ex1", target_text |-> <<"a", " ", "b">>],
     [id |-> "ex2", target_text |-> <<"a">>]}

\* the transcript one recognition event carries, all of it final or all of
\* it interim
Chunks == {<<"a">>, <<" ">>}

\* the events one recognition delivers and the recognitions a run starts
MaxResults == 1

MaxRecordings == 1

\* the messages of setError
NotSupported ==
    "Speech recognition not supported in this browser. Please use Chrome or Edge."

NoSpeechDetected ==
    "No speech detected. Please try again and speak clearly into your microphone."

RecognitionErrors == {"not-allowed", "no-speech", "network"}

errorMessage(e) ==
    IF e = "not-allowed"
    THEN "Microphone access denied. Please allow microphone access."
    ELSE IF e = "no-speech"
         THEN "No speech detected. Please try again and speak clearly."
         ELSE "Speech recognition error: network"

\* the feedback of the server and the one the catch block builds
ServerFeedback == "data.ai_feedback"

FallbackFeedback == "fallbackFeedback"

\* String.prototype.trim
RECURSIVE trimStart(_)
trimStart(s) ==
    IF s # <<>> /\ IsSpaceChar(Head(s)) THEN trimStart(Tail(s)) ELSE s

RECURSIVE trimEnd(_)
trimEnd(s) ==
    IF s # <<>> /\ IsSpaceChar(s[Len(s)])
    THEN trimEnd(SubSeq(s, 1, Len(s) - 1))
    ELSE s

trim(s) == trimEnd(trimStart(s))

\* the same choice of transcript without the two trims
spokenTextOf_noTrim(final, live) == IF final # <<>> THEN final ELSE live

\* finalTranscriptRef.current.trim() || liveTranscript.trim()
spokenTextOf(final, live) ==
    IF trim(final) # <<>> THEN trim(final) ELSE trim(live)

\* recognition.stop(): a recognition that listens delivers what it has and
\* ends, one that has not started yet ends at once
stop(r) ==
    IF r.phase = "listening"
    THEN [r EXCEPT !.phase = "stopping"]
    ELSE IF r.phase = "starting" THEN [r EXCEPT !.phase = "cancelled"] ELSE r

\* the record processResults hands to saveAttempt (the title, the category
\* and the duration are left out)
newAttempt(exercise, spokenText, analysis, feedback) ==
    [exerciseId |-> exercise.id,
     targetText |-> exercise.target_text,
     transcription |-> spokenText,
     scores |-> analysis.scores,
     wordAnalysis |-> analysis.word_analysis,
     aiFeedback |-> feedback]

\* { ...attempt, timestamp: new Date().toISOString() } (the id is left out)
stamped(attempt, time) ==
    [f \in DOMAIN attempt \cup {"timestamp"} |->
        IF f = "timestamp" THEN time ELSE attempt[f]]

\* saveAttempt that stores the new attempt alone
saveAttempt_overwrite(stored, attempt) == <<stamped(attempt, now)>>

\* what saveAttempt leaves in the storage when it returns: the list
\* getAllAttempts read, with the new attempt pushed
saveAttempt(stored, attempt) == Append(stored, stamped(attempt, now))

\* the attempts the storage of the browser has room for: localStorage.setItem
\* throws when the serialized list does not fit
StorageQuota == 3

setItemThrows(stored) == Len(stored) >= StorageQuota

\* the value of setPracticeResult
practiceResultOf(exercise, spokenText, analysis, feedback) ==
    [transcription |-> spokenText,
     target_text |-> exercise.target_text,
     scores |-> analysis.scores,
     ai_feedback |-> feedback,
     word_analysis |-> analysis.word_analysis]

\* a sequence without its i-th element
removeAt(seq, i) == SubSeq(seq, 1, i - 1) \o SubSeq(seq, i + 1, Len(seq))

\* the modal shows the record button
recordingControlsShown ==
    /\ activeExercise # NoExercise
    /\ practiceResult = NoPracticeResult
    /\ ~isProcessing

\* an attempt stored by an earlier visit of the page, and the histories the
\* page may find in the storage when it opens
earlierAttempt ==
    newAttempt([id |-> "ex2", target_text |-> <<"a">>], <<"a">>,
               analyzeSpokenText(<<"a">>, <<"a">>), ServerFeedback)

fullHistory == [i \in 1..StorageQuota |-> stamped(earlierAttempt, 0)]

StoredHistories == {<<>>, fullHistory}

FirstRenderOver(history) ==
    /\ activeExercise = NoExercise
    /\ isRecording = FALSE
    /\ isProcessing = FALSE
    /\ practiceResult = NoPracticeResult
    /\ liveTranscript = <<>>
    /\ error = NoError
    /\ finalTranscriptRef = <<>>
    /\ recognition = NoRecognition
    /\ recordings = 0
    /\ pendingTimeouts = <<>>
    /\ pendingFeedback = <<>>
    /\ attempts = history
    /\ now = 0
    /\ saveCalls = Len(history)
    /\ ServerIdle

InitPage ==
    /\ target = <<>>
    /\ spoken = <<>>
    /\ NothingCalled
    /\ \E history \in StoredHistories : FirstRenderOver(history)
    /\ SpeechRecognitionAPI \in BOOLEAN

\* a click on Practice in the list, which the open modal covers
handlePractice(exercise) ==
    /\ activeExercise = NoExercise
    /\ activeExercise' = exercise
    /\ practiceResult' = NoPracticeResult
    /\ liveTranscript' = <<>>
    /\ error' = NoError
    /\ finalTranscriptRef' = <<>>
    /\ UNCHANGED <<isRecording, isProcessing, recognition, recordings,
                   pendingTimeouts, pendingFeedback, attempts,
                   SpeechRecognitionAPI, now, saveCalls>>
    /\ UNCHANGED <<scorerVars, serverVars>>

\* a click on the record button: the handlers of the new recognition keep
\* the isRecording, activeExercise and liveTranscript of this render.  One
\* recognition is alive at a time.
startRecording ==
    /\ recordingControlsShown
    /\ ~isRecording
    /\ IF ~SpeechRecognitionAPI
       THEN /\ error' = NotSupported
            /\ UNCHANGED <<recognition, recordings>>
       ELSE /\ recognition.phase \in {"none", "ended"}
            /\ recordings < MaxRecordings
            /\ error' = NoError
            /\ recognition' =
                   [phase |-> "starting",
                    isRecording |-> isRecording,
                    activeExercise |-> activeExercise,
                    liveTranscript |-> liveTranscript,
                    results |-> 0]
            /\ recordings' = recordings + 1
    /\ UNCHANGED <<activeExercise, isRecording, isProcessing, practiceResult,
                   liveTranscript, finalTranscriptRef, pendingTimeouts,
                   pendingFeedback, attempts, SpeechRecognitionAPI, now, saveCalls>>
    /\ UNCHANGED <<scorerVars, serverVars>>

\* recognition.onstart
onstart ==
    /\ recognition.phase = "starting"
    /\ recognition' = [recognition EXCEPT !.phase = "listening"]
    /\ isRecording' = TRUE
    /\ liveTranscript' = <<>>
    /\ finalTranscriptRef' = <<>>
    /\ UNCHANGED <<activeExercise, isProcessing, practiceResult, error,
                   recordings, pendingTimeouts, pendingFeedback, attempts,
                   SpeechRecognitionAPI, now, saveCalls>>
    /\ UNCHANGED <<scorerVars, serverVars>>

\* recognition.onresult on an event whose final results amount to
\* finalTranscript and whose interim results to interimTranscript
onresult(finalTranscript, interimTranscript) ==
    /\ recognition.phase \in {"listening", "stopping"}
    /\ recognition.results < MaxResults
    /\ recognition' = [recognition EXCEPT !.results = @ + 1]
    /\ finalTranscriptRef' =
           IF finalTranscript # <<>>
           THEN finalTranscriptRef \o finalTranscript
           ELSE finalTranscriptRef
    /\ liveTranscript' = finalTranscriptRef' \o interimTranscript
    /\ UNCHANGED <<activeExercise, isRecording, isProcessing, practiceResult,
                   error, recordings, pendingTimeouts, pendingFeedback,
                   attempts, SpeechRecognitionAPI, now, saveCalls>>
    /\ UNCHANGED <<scorerVars, serverVars>>

\* recognition.onerror, which ends with stopRecording(); the recognition
\* that failed delivers nothing more
onerror(e) ==
    /\ recognition.phase \in {"starting", "listening"}
    /\ error' = errorMessage(e)
    /\ recognition' = [recognition EXCEPT !.phase = "cancelled"]
    /\ isRecording' = FALSE
    /\ UNCHANGED <<activeExercise, isProcessing, practiceResult,
                   liveTranscript, finalTranscriptRef, recordings,
                   pendingTimeouts, pendingFeedback, attempts,
                   SpeechRecognitionAPI, now, saveCalls>>
    /\ UNCHANGED <<scorerVars, serverVars>>

\* processResults up to its await, in the render whose activeExercise and
\* liveTranscript the closure holds; finalTranscriptRef is read as it is now
processResults(closure) ==
    LET spokenText ==
            spokenTextOf(finalTranscriptRef, closure.liveTranscript)
        exercise == closure.activeExercise
    IN  IF exercise = NoExercise
        THEN UNCHANGED <<isRecording, isProcessing, error, pendingFeedback,
                         target, spoken, result, calls>>
        ELSE IF spokenText = <<>>
             THEN /\ error' = NoSpeechDetected
                  /\ isRecording' = FALSE
                  /\ UNCHANGED <<isProcessing, pendingFeedback,
                                 target, spoken, result, calls>>
             ELSE /\ isProcessing' = TRUE
                  /\ isRecording' = FALSE
                  /\ target' = exercise.target_text
                  /\ spoken' = spokenText
                  /\ result' = analyzeSpokenText(target', spoken')
                  /\ calls' = Append(calls, callRecord(target', spoken', result'))
                  /\ pendingFeedback' =
                         Append(pendingFeedback,
                                [activeExercise |-> exercise,
                                 spokenText |-> spokenText,
                                 analysis |-> result'])
                  /\ UNCHANGED error

\* recognition.onend
onend ==
    /\ recognition.phase \in {"listening", "stopping", "cancelled"}
    /\ recognition' = [recognition EXCEPT !.phase = "ended"]
    /\ IF recognition.isRecording
       THEN processResults(recognition)
       ELSE UNCHANGED <<isRecording, isProcessing, error, pendingFeedback,
                        target, spoken, result, calls>>
    /\ UNCHANGED <<activeExercise, practiceResult, liveTranscript,
                   finalTranscriptRef, recordings, pendingTimeouts, attempts,
                   SpeechRecognitionAPI, levDistance, serverVars,
                   now, saveCalls>>

\* a click on the stop button: stopRecording() and setTimeout(processResults)
handleStopRecording ==
    /\ recordingControlsShown
    /\ isRecording
    /\ recognition' = stop(recognition)
    /\ isRecording' = FALSE
    /\ pendingTimeouts' =
           Append(pendingTimeouts,
                  [activeExercise |-> activeExercise,
                   liveTranscript |-> liveTranscript])
    /\ UNCHANGED <<activeExercise, isProcessing, practiceResult,
                   liveTranscript, error, finalTranscriptRef, recordings,
                   pendingFeedback, attempts, SpeechRecognitionAPI, now, saveCalls>>
    /\ UNCHANGED <<scorerVars, serverVars>>

\* the oldest timeout of handleStopRecording fires
timeoutFires ==
    /\ pendingTimeouts # <<>>
    /\ pendingTimeouts' = Tail(pendingTimeouts)
    /\ processResults(Head(pendingTimeouts))
    /\ UNCHANGED <<activeExercise, practiceResult, liveTranscript,
                   finalTranscriptRef, recognition, recordings, attempts,
                   SpeechRecognitionAPI, levDistance, serverVars,
                   now, saveCalls>>

\* the catch block of a run whose saveAttempt throws: the transcript is
\* scored again and the fallback result is set, the exception of the second
\* saveAttempt leaves processResults before setIsProcessing(false)
catchThrows(run) ==
    /\ target' = run.activeExercise.target_text
    /\ spoken' = run.spokenText
    /\ result' = analyzeSpokenText(target', spoken')
    /\ calls' = Append(calls, callRecord(target', spoken', result'))
    /\ practiceResult' =
           practiceResultOf(run.activeExercise, run.spokenText,
                            result', FallbackFeedback)
    /\ UNCHANGED <<attempts, isProcessing, saveCalls>>

\* the fetch of the i-th waiting run resolves and its body parses:
\* processResults goes on after its awaits; a saveAttempt that throws takes
\* it to the catch block
feedbackArrives(i) ==
    LET run == pendingFeedback[i]
    IN  /\ IF setItemThrows(attempts)
           THEN catchThrows(run)
           ELSE /\ practiceResult' =
                       practiceResultOf(run.activeExercise, run.spokenText,
                                        run.analysis, ServerFeedback)
                /\ attempts' =
                       saveAttempt(attempts,
                                   newAttempt(run.activeExercise,
                                              run.spokenText, run.analysis,
                                              ServerFeedback))
                /\ saveCalls' = saveCalls + 1
                /\ isProcessing' = FALSE
                /\ UNCHANGED <<target, spoken, result, calls>>
        /\ pendingFeedback' = removeAt(pendingFeedback, i)
        /\ UNCHANGED <<activeExercise, isRecording, liveTranscript, error,
                       finalTranscriptRef, recognition, recordings,
                       pendingTimeouts, SpeechRecognitionAPI, levDistance, serverVars,
                       now>>

\* the fetch of the i-th waiting run rejects, or its body does not parse:
\* the catch block scores the transcript again
feedbackFails(i) ==
    LET run == pendingFeedback[i]
    IN  /\ IF setItemThrows(attempts)
           THEN catchThrows(run)
           ELSE /\ target' = run.activeExercise.target_text
                /\ spoken' = run.spokenText
                /\ result' = analyzeSpokenText(target', spoken')
                /\ calls' =
                       Append(calls, callRecord(target', spoken', result'))
                /\ practiceResult' =
                       practiceResultOf(run.activeExercise, run.spokenText,
                                        result', FallbackFeedback)
                /\ attempts' =
                       saveAttempt(attempts,
                                   newAttempt(run.activeExercise,
                                              run.spokenText, result',
                                              FallbackFeedback))
                /\ saveCalls' = saveCalls + 1
                /\ isProcessing' = FALSE
        /\ pendingFeedback' = removeAt(pendingFeedback, i)
        /\ UNCHANGED <<activeExercise, isRecording, liveTranscript, error,
                       finalTranscriptRef, recognition, recordings,
                       pendingTimeouts, SpeechRecognitionAPI, levDistance, serverVars,
                       now>>

\* a click on the close button or on Done
closePractice ==
    /\ activeExercise # NoExercise
    /\ IF isRecording
       THEN /\ recognition' = stop(recognition)
            /\ isRecording' = FALSE
       ELSE UNCHANGED <<recognition, isRecording>>
    /\ activeExercise' = NoExercise
    /\ practiceResult' = NoPracticeResult
    /\ liveTranscript' = <<>>
    /\ error' = NoError
    /\ UNCHANGED <<isProcessing, finalTranscriptRef, recordings,
                   pendingTimeouts, pendingFeedback, attempts,
                   SpeechRecognitionAPI, now, saveCalls>>
    /\ UNCHANGED <<scorerVars, serverVars>>

\* a click on Try Again, which the modal shows with a result
tryAgain ==
    /\ activeExercise # NoExercise
    /\ practiceResult # NoPracticeResult
    /\ practiceResult' = NoPracticeResult
    /\ liveTranscript' = <<>>
    /\ error' = NoError
    /\ finalTranscriptRef' = <<>>
    /\ UNCHANGED <<activeExercise, isRecording, isProcessing, recognition,
                   recordings, pendingTimeouts, pendingFeedback, attempts,
                   SpeechRecognitionAPI, now, saveCalls>>
    /\ UNCHANGED <<scorerVars, serverVars>>

NextPage ==
    \/ \E exercise \in Exercises : handlePractice(exercise)
    \/ startRecording
    \/ onstart
    \/ \E chunk \in Chunks : onresult(chunk, <<>>)
    \/ \E chunk \in Chunks : onresult(<<>>, chunk)
    \/ \E e \in RecognitionErrors : onerror(e)
    \/ onend
    \/ handleStopRecording
    \/ timeoutFires
    \/ \E i \in 1..Len(pendingFeedback) : feedbackArrives(i)
    \/ \E i \in 1..Len(pendingFeedback) : feedbackFails(i)
    \/ closePractice
    \/ tryAgain

SpecPage == InitPage /\ [][NextPage]_vars

-----------------------------------------------------------------------------
(* Properties of the practice modal *)

\* a step in which a timeout of handleStopRecording runs processResults
timeoutRan ==
    /\ pendingTimeouts # <<>>
    /\ pendingTimeouts' = Tail(pendingTimeouts)

\* a step in which recognition.onend runs processResults
onendRan ==
    /\ recognition.phase # "ended"
    /\ recognition'.phase = "ended"
    /\ recognition.isRecording

\* both transcripts processResults reads are empty once trimmed: the final
\* one as the ref holds it now, the live one as its render held it
nothingHeard(live) ==
    /\ trim(finalTranscriptRef) = <<>>
    /\ trim(live) = <<>>

\* what the step of a run that heard nothing does and does not do
nothingProcessed ==
    /\ calls' = calls
    /\ pendingFeedback' = pendingFeedback
    /\ attempts' = attempts
    /\ practiceResult' = practiceResult
    /\ error' = NoSpeechDetected
    /\ isRecording' = FALSE

\* C20: a run of processResults that reads an empty final transcript and an
\* empty live transcript, both after trimming, does not call the scorer,
\* sends no feedback request, saves no attempt and sets no practice result;
\* it sets the no-speech error message and clears the recording flag.
C20_NoSpeech ==
    [][/\ (timeoutRan /\ nothingHeard(Head(pendingTimeouts).liveTranscript))
              => nothingProcessed
       /\ (onendRan /\ nothingHeard(recognition.liveTranscript))
              => nothingProcessed]_vars

\* the recognition delivered one blank as its only result, the stop button
\* was pressed and its timeout has run: the no-speech message is up and
\* nothing was scored, requested, saved or shown
C20_Witness ==
    /\ recordings = 1
    /\ recognition.results = 1
    /\ finalTranscriptRef = <<" ">>
    /\ pendingTimeouts = <<>>
    /\ error = NoSpeechDetected
    /\ ~isRecording
    /\ calls = <<>>
    /\ pendingFeedback = <<>>
    /\ attempts = <<>>
    /\ practiceResult = NoPracticeResult

\* the i-th waiting run of processResults ends in this step
runEnds(i) ==
    /\ i \in 1..Len(pendingFeedback)
    /\ pendingFeedback' = removeAt(pendingFeedback, i)

\* the practice result, the history and the flag as a finished run of
\* processResults is to leave them
runCompleted(run) ==
    LET analysis ==
            analyzeSpokenText(run.activeExercise.target_text, run.spokenText)
    IN  /\ run.spokenText # <<>>
        /\ practiceResult' # NoPracticeResult
        /\ practiceResult'.scores = analysis.scores
        /\ practiceResult'.word_analysis = analysis.word_analysis
        /\ Len(attempts') = Len(attempts) + 1
        /\ SubSeq(attempts', 1, Len(attempts)) = attempts
        /\ attempts'[Len(attempts')].transcription = run.spokenText
        /\ attempts'[Len(attempts')].scores = analysis.scores
        /\ isProcessing' = FALSE

\* C21: every run of processResults with a non-empty transcript ends, the
\* feedback request having succeeded or failed, with a practice result that
\* carries the scores and the word analysis of the scorer for (target text,
\* transcript), with exactly one more attempt in the history and with
\* isProcessing false.
C21_RunCompletes ==
    [][\A i \in 1..Len(pendingFeedback) :
           runEnds(i) => runCompleted(pendingFeedback[i])]_vars

\* the recognition ends on its own in this step: it was listening, nobody
\* had stopped it, and the page shows a recording in progress
endsOnItsOwn ==
    /\ recognition.phase = "listening"
    /\ recognition'.phase = "ended"
    /\ isRecording

\* processResults has run in this step on the transcript captured so far
processedSoFar ==
    LET spokenText == spokenTextOf(finalTranscriptRef, liveTranscript)
    IN  /\ isRecording' = FALSE
        /\ IF spokenText = <<>>
           THEN error' = NoSpeechDetected
           ELSE /\ isProcessing'
                /\ Len(calls') = Len(calls) + 1
                /\ calls'[Len(calls')].spoken = spokenText
                /\ Len(pendingFeedback') = Len(pendingFeedback) + 1

\* C22: when the recognition ends on its own while a recording is in
\* progress (onend fires before the stop button was pressed), processResults
\* runs on the transcript captured so far.
C22_EndProcesses == [][endsOnItsOwn => processedSoFar]_vars

\* the modal is open and shows a practice result
resultShown ==
    /\ activeExercise # NoExercise
    /\ practiceResult # NoPracticeResult

\* C25: a practice result shown while an exercise is active has the target
\* text of that exercise, also when the modal was closed and another
\* exercise opened while the feedback request of the attempt was pending.
C25_ResultOfActiveExercise ==
    resultShown => practiceResult.target_text = activeExercise.target_text

-----------------------------------------------------------------------------
(* More properties of the scorer *)

\* C28: an entry of the alignment has spoken = "(missing)" exactly when
\* there is no spoken token at its position (its index, counted from 1, is
\* above S); such an entry never matches, so the number of matched words is
\* at most min(T, S).
C28_MissingEntries ==
    returned =>
        /\ \A i \in 1..Len(entries) : (entries[i].spoken = MISSING) <=> (i > S)
        /\ \A i \in 1..Len(entries) :
               entries[i].spoken = MISSING => ~entries[i].match
        /\ matched <= Min(T, S)

\* "go home now" against "go": the second and the third entry are missing
C28_Witness ==
    /\ returned
    /\ target = goHomeNow
    /\ spoken = go
    /\ entries[1].match
    /\ entries[2].spoken = MISSING
    /\ entries[3].spoken = MISSING
    /\ matched = 1

\* C29: the fluency never exceeds the clarity, and the two are equal when
\* the target and the transcript have the same number of tokens.
C29_FluencyAtMostClarity ==
    returned =>
        /\ result.scores.fluency <= result.scores.clarity
        /\ (T = S) => result.scores.fluency = result.scores.clarity

\* "go home now" against "go home": two of three words match and one is
\* missing, the clarity is 67 and the fluency 57
C29_Witness ==
    /\ returned
    /\ target = goHomeNow
    /\ spoken = goHome
    /\ result.scores.clarity = 67
    /\ result.scores.fluency = 57

-----------------------------------------------------------------------------
(* The stored history (lib/exercise-storage) *)

\* the (target, transcript) pairs of the attempts that are saved
SavedInputs ==
    {<<t, sp>> : t \in {<<"a">>, <<"a", " ", "b">>},
                 sp \in {<<"a">>, <<"b">>, <<"a", " ", "b">>}}

\* the attempt the page hands over for a target and a transcript
attemptOf(t, sp) ==
    newAttempt([id |-> t, target_text |-> t], sp, analyzeSpokenText(t, sp),
               ServerFeedback)

\* the storage is empty, the page is not in use
InitStorage ==
    /\ target = <<>>
    /\ spoken = <<>>
    /\ NothingCalled
    /\ PageIdle

\* one call saveAttempt(attempt): it returns with the list written back, or
\* setItem throws and the storage stays as it was
saveAttemptCall(attempt) ==
    /\ IF setItemThrows(attempts)
       THEN UNCHANGED <<attempts, saveCalls>>
       ELSE /\ attempts' = saveAttempt(attempts, attempt)
            /\ saveCalls' = saveCalls + 1
    /\ UNCHANGED <<activeExercise, isRecording, isProcessing, practiceResult,
                   liveTranscript, error, finalTranscriptRef, recognition,
                   recordings, pendingTimeouts, pendingFeedback,
                   SpeechRecognitionAPI, now>>
    /\ UNCHANGED <<scorerVars, serverVars>>

\* clearAllAttempts(): localStorage.removeItem(STORAGE_KEY)
clearAllAttempts ==
    /\ attempts' = <<>>
    /\ saveCalls' = 0
    /\ UNCHANGED <<activeExercise, isRecording, isProcessing, practiceResult,
                   liveTranscript, error, finalTranscriptRef, recognition,
                   recordings, pendingTimeouts, pendingFeedback,
                   SpeechRecognitionAPI, now>>
    /\ UNCHANGED <<scorerVars, serverVars>>

NextStorage ==
    \/ \E input \in SavedInputs : saveAttemptCall(attemptOf(input[1], input[2]))
    \/ clearAllAttempts

SpecStorage == InitStorage /\ [][NextStorage]_vars

\* a call of saveAttempt returns in this step
saveReturns == saveCalls' = saveCalls + 1

\* C26: saveAttempt only appends.  When it returns, the stored list is the
\* list of before, same attempts in the same order, followed by the new
\* attempt; so the number of stored attempts is the number of calls that
\* returned since the storage was last empty.
C26_SaveAppends ==
    /\ [](Len(attempts) = saveCalls)
    /\ [][saveReturns =>
            /\ Len(attempts') = Len(attempts) + 1
            /\ SubSeq(attempts', 1, Len(attempts)) = attempts
            /\ attempts'[Len(attempts')].timestamp = now]_vars

\* three calls have returned and the three attempts are stored in the order
\* of the calls
C26_Witness ==
    /\ saveCalls = 3
    /\ Len(attempts) = 3
    /\ attempts[1].transcription = <<"a">>
    /\ attempts[2].transcription = <<"b">>
    /\ attempts[3].transcription = <<"a", " ", "b">>

-----------------------------------------------------------------------------
(* Dates of the stored history *)

\* A Date is an instant, counted in hours from the local midnight that
\* begins day 0.  The local calendar has days of 24 hours, but for the day
\* on which the clocks go forward, which has 23.
HoursPerDay == 24

ShortDays == {1}

\* the last day of the runs, and the place of day 0 in the week: getDay()
\* is 0 on a Sunday, day 0 is a Saturday and the short day 1 a Sunday
MaxDay == 3

FirstWeekday == 6

dayLength(d) == IF d \in ShortDays THEN HoursPerDay - 1 ELSE HoursPerDay

\* the local midnight that begins day d: setHours(0, 0, 0, 0)
RECURSIVE startOfDay(_)
startOfDay(d) ==
    IF d <= 0 THEN HoursPerDay * d ELSE startOfDay(d - 1) + dayLength(d - 1)

\* the local day of an instant: toDateString()
RECURSIVE dayFrom(_, _)
dayFrom(d, instant) ==
    IF instant < startOfDay(d + 1) THEN d ELSE dayFrom(d + 1, instant)

dayOf(instant) == dayFrom(0, instant)

getDay(d) == (d + FirstWeekday) % 7

\* the instants of the runs: the midnight and the midday of each day
Instants == {startOfDay(d) + h : d \in 0..MaxDay, h \in {0, 12}}

\* getAttemptsByDateRange(startDate, endDate), both ends included
getAttemptsByDateRange(startDate, endDate) ==
    SelectSeq(attempts,
              LAMBDA a : a.timestamp >= startDate /\ a.timestamp <= endDate)

\* the day of the Sunday that begins the week of today
startOfWeekDay == dayOf(now) - getDay(dayOf(now))

getThisWeekAttempts == getAttemptsByDateRange(startOfDay(startOfWeekDay), now)

getLastWeekAttempts ==
    getAttemptsByDateRange(startOfDay(startOfWeekDay - 7),
                           startOfDay(startOfWeekDay))

\* the days with an attempt, latest first
practiceDays == {dayOf(attempts[i].timestamp) : i \in 1..Len(attempts)}

RECURSIVE sortedLatestFirst(_)
sortedLatestFirst(days) ==
    IF days = {}
    THEN <<>>
    ELSE LET latest == CHOOSE d \in days : \A e \in days : e <= d
         IN  <<latest>> \o sortedLatestFirst(days \ {latest})

\* the loop of calculateStreak from index i on: the midnights of two
\* neighbours are compared in whole days of 24 hours
RECURSIVE countFrom(_, _)
countFrom(sortedDates, i) ==
    IF i > Len(sortedDates)
    THEN 0
    ELSE LET current  == startOfDay(sortedDates[i - 1])
             prev     == startOfDay(sortedDates[i])
             diffDays == (current - prev) \div HoursPerDay
         IN  IF diffDays = 1 THEN 1 + countFrom(sortedDates, i + 1) ELSE 0

calculateStreak ==
    LET sortedDates == sortedLatestFirst(practiceDays)
        yesterday   == startOfDay(dayOf(now) - 1)
    IN  IF Len(attempts) = 0
        THEN 0
        ELSE IF startOfDay(sortedDates[1]) < yesterday
             THEN 0
             ELSE 1 + countFrom(sortedDates, 2)

\* the clock goes on to the next instant
tick ==
    /\ \E later \in Instants : later > now
    /\ now' = CHOOSE later \in Instants :
                  /\ later > now
                  /\ \A other \in Instants : other > now => later <= other
    /\ UNCHANGED <<activeExercise, isRecording, isProcessing, practiceResult,
                   liveTranscript, error, finalTranscriptRef, recognition,
                   recordings, pendingTimeouts, pendingFeedback, attempts,
                   SpeechRecognitionAPI, saveCalls>>
    /\ UNCHANGED <<scorerVars, serverVars>>

\* attempts are saved while the days go by
NextCalendar ==
    \/ saveAttemptCall(attemptOf(<<"a">>, <<"a">>))
    \/ clearAllAttempts
    \/ tick

SpecCalendar == InitStorage /\ [][NextCalendar]_vars

\* the run of consecutive calendar days with an attempt that ends at day d
RECURSIVE runEndingAt(_)
runEndingAt(d) == IF d \in practiceDays THEN 1 + runEndingAt(d - 1) ELSE 0

lastPracticeDay == CHOOSE d \in practiceDays : \A e \in practiceDays : e <= d

\* C24: calculateStreak is 0 without a stored attempt and when the last day
\* with an attempt is before yesterday; otherwise it is the length of the
\* run of consecutive calendar days with an attempt that ends at the last
\* practice day.
C24_Streak ==
    calculateStreak =
        IF Len(attempts) = 0 \/ lastPracticeDay < dayOf(now) - 1
        THEN 0
        ELSE runEndingAt(lastPracticeDay)

\* C27: no stored attempt is returned both by getThisWeekAttempts and by
\* getLastWeekAttempts, whatever the current time: the two weekly windows
\* do not overlap.
C27_WeeksDisjoint ==
    \A i \in 1..Len(getThisWeekAttempts), j \in 1..Len(getLastWeekAttempts) :
        getThisWeekAttempts[i] # getLastWeekAttempts[j]

-----------------------------------------------------------------------------
(* Strengths and weaknesses of the stored history *)

\* a weakness: a text and, for "Practice the word ...", the word it names
PracticeTheWord == "Practice the word"

scoreWeakness(text) == [text |-> text, word |-> <<>>]

wordWeakness(word) == [text |-> PracticeTheWord, word |-> word]

\* the limits of the averages and of the counts
StrongAverage == 75

WeakAverage == 60

MinMissedCount == 2

MinStreak == 3

MaxListed == 3

RECURSIVE sumOf(_, _)
sumOf(list, score) ==
    IF list = <<>> THEN 0 ELSE Head(list).scores[score] + sumOf(Tail(list), score)

\* the targets of the entries without a match, attempt after attempt, in
\* lower case
RECURSIVE missedTargets(_)
missedTargets(list) ==
    IF list = <<>>
    THEN <<>>
    ELSE LET unmatched == SelectSeq(Head(list).wordAnalysis,
                                    LAMBDA w : ~w.match)
         IN  [i \in 1..Len(unmatched) |-> toLowerCase(unmatched[i].target)]
                 \o missedTargets(Tail(list))

\* the keys of the Map missedWords in the order of their insertion
RECURSIVE keysOf(_, _)
keysOf(words, seen) ==
    IF words = <<>>
    THEN <<>>
    ELSE IF Head(words) \in seen
         THEN keysOf(Tail(words), seen)
         ELSE <<Head(words)>> \o keysOf(Tail(words), seen \cup {Head(words)})

countOf(words, word) == Cardinality({i \in 1..Len(words) : words[i] = word})

\* the place of the i-th key after the sort by falling count, which keeps
\* the order of keys with equal counts
placeOf(keys, words, i) ==
    1 + Cardinality({j \in 1..Len(keys) :
                         \/ countOf(words, keys[j]) > countOf(words, keys[i])
                         \/ /\ countOf(words, keys[j]) = countOf(words, keys[i])
                            /\ j < i})

\* sortedMissed: the keys at the first places
sortedMissed(keys, words) ==
    [p \in 1..Min(MaxListed, Len(keys)) |->
        keys[CHOOSE i \in 1..Len(keys) : placeOf(keys, words, i) = p]]

firstOf(list) == SubSeq(list, 1, Min(MaxListed, Len(list)))

analyzePerformance(list) ==
    IF Len(list) = 0
    THEN [strengths |-> <<>>, weaknesses |-> <<>>]
    ELSE
    LET n == Len(list)
        strong(score) == sumOf(list, score) >= StrongAverage * n
        weak(score)   == sumOf(list, score) < WeakAverage * n
        fromScores ==
            (IF strong("clarity") THEN <<"Strong word accuracy">> ELSE <<>>)
            \o (IF strong("pace") THEN <<"Good speaking pace">> ELSE <<>>)
            \o (IF strong("fluency") THEN <<"Smooth fluency">> ELSE <<>>)
        weakScores ==
            (IF ~strong("clarity") /\ weak("clarity")
             THEN <<scoreWeakness("Word accuracy needs work")>> ELSE <<>>)
            \o (IF ~strong("pace") /\ weak("pace")
                THEN <<scoreWeakness("Speaking pace - try slowing down")>>
                ELSE <<>>)
            \o (IF ~strong("fluency") /\ weak("fluency")
                THEN <<scoreWeakness("Fluency - practice complete phrases")>>
                ELSE <<>>)
        words  == missedTargets(list)
        missed == sortedMissed(keysOf(words, {}), words)
        often  == SelectSeq(missed,
                            LAMBDA w : countOf(words, w) >= MinMissedCount)
        weakWords == [i \in 1..Len(often) |-> wordWeakness(often[i])]
        strengths ==
            fromScores
            \o (IF calculateStreak >= MinStreak
                THEN <<"Consistent daily practice">> ELSE <<>>)
        weaknesses == weakScores \o weakWords
    IN  [strengths |->
            firstOf(IF strengths = <<>>
                    THEN <<"Getting started with practice">>
                    ELSE strengths),
         weaknesses |->
            firstOf(IF weaknesses = <<>>
                    THEN <<scoreWeakness("Keep practicing for more insights")>>
                    ELSE weaknesses)]

\* the words of the target phrases of the history that were not matched
unmatchedTargetWordsOf(attempt) ==
    {attempt.wordAnalysis[k].target :
         k \in {j \in 1..Len(attempt.wordAnalysis) :
                    /\ j <= Len(tokenize(attempt.targetText))
                    /\ ~attempt.wordAnalysis[j].match}}

unmatchedTargetWords ==
    UNION {unmatchedTargetWordsOf(attempts[i]) : i \in 1..Len(attempts)}

\* C23: the weaknesses "Practice the word ..." that analyzePerformance
\* derives from the stored history name words of target phrases that were
\* not matched, never the sentinel "(extra)" of a surplus spoken word.
C23_MissedWordsAreTargetWords ==
    LET weaknesses == analyzePerformance(attempts).weaknesses
    IN  \A i \in 1..Len(weaknesses) :
            weaknesses[i].text = PracticeTheWord =>
                /\ weaknesses[i].word # EXTRA
                /\ weaknesses[i].word \in unmatchedTargetWords

-----------------------------------------------------------------------------
(* The sessions of the therapy router
   Every procedure is protected: ctx.userId is the user who calls.  A row
   of TherapySession has the position it was inserted at as its id; a
   column that is null holds the empty sequence, one that has a value
   holds the sequence of that value.  An average is kept as the sum and
   the number of the scores it divides. *)

Users == {"u1", "u2"}

MaxSessions == 2

MaxAttemptRows == 2

MaxEndCalls == 2

SessionIds == 1..MaxSessions

\* the values of input.overallScore, <<>> when the field is left out
OverallScores == {<<>>, <<0>>, <<100>>}

SessionNotFound == "Session not found"

RECURSIVE sumOfScores(_)
sumOfScores(scores) ==
    IF scores = <<>> THEN 0 ELSE Head(scores) + sumOfScores(Tail(scores))

\* the overallScore of the rows that have one
scoresOf(rows) ==
    LET scored == SelectSeq(rows, LAMBDA a : a.overallScore # <<>>)
    IN  [i \in 1..Len(scored) |-> scored[i].overallScore[1]]

averageScoreOf(rows) ==
    LET scores == scoresOf(rows)
    IN  IF Len(scores) > 0
        THEN <<sumOfScores(scores), Len(scores)>>
        ELSE <<>>

\* findFirst of endSession: the session of that id that the caller owns
findFirstSession(tables, userId, id) ==
    IF /\ id \in 1..Len(tables.TherapySession)
       /\ tables.TherapySession[id].userId = userId
    THEN <<tables.TherapySession[id]>>
    ELSE <<>>

\* findMany of endSession: the attempts that carry the id of the session
findManyAttempts(tables, id) ==
    SelectSeq(tables.ExerciseAttempt, LAMBDA a : a.sessionId = <<id>>)

\* the update of endSession
updateSession(tables, id, rows) ==
    [tables EXCEPT !.TherapySession[id] =
        [@ EXCEPT !.status = "completed",
                  !.exerciseCount = Len(rows),
                  !.averageScore = averageScoreOf(rows)]]

InitTherapy ==
    /\ target = <<>>
    /\ spoken = <<>>
    /\ NothingCalled
    /\ PageIdle

startSession(userId) ==
    /\ Len(db.TherapySession) < MaxSessions
    /\ db' = [db EXCEPT !.TherapySession =
                Append(@, [id |-> Len(@) + 1, userId |-> userId,
                           status |-> "active", exerciseCount |-> 0,
                           averageScore |-> <<>>])]
    /\ UNCHANGED <<scorerVars, pageVars, endSessionCalls>>

\* both inserts of recordAttempt; an insert whose session_id is the id of no
\* session is rejected by the foreign key and leaves the tables as they were
recordAttempt(userId, sessionId, overallScore) ==
    /\ Len(db.ExerciseAttempt) < MaxAttemptRows
    /\ sessionId # <<>> => sessionId[1] \in 1..Len(db.TherapySession)
    /\ db' = [db EXCEPT
                !.ExerciseAttempt =
                    Append(@, [userId |-> userId, sessionId |-> sessionId,
                               overallScore |-> overallScore]),
                !.ProgressMetric =
                    IF overallScore # <<>>
                    THEN Append(@, [userId |-> userId,
                                    metricType |-> "overall",
                                    value |-> overallScore[1]])
                    ELSE @]
    /\ UNCHANGED <<scorerVars, pageVars, endSessionCalls>>

\* endSession up to its first await: the session is looked up, and the call
\* throws when the caller owns no session of that id
endSession(userId, id) ==
    /\ Len(endSessionCalls) < MaxEndCalls
    /\ endSessionCalls' =
        Append(endSessionCalls,
               IF findFirstSession(db, userId, id) = <<>>
               THEN [userId |-> userId, id |-> id, at |-> "thrown",
                     error |-> SessionNotFound, attempts |-> <<>>]
               ELSE [userId |-> userId, id |-> id, at |-> "findMany",
                     error |-> "", attempts |-> <<>>])
    /\ UNCHANGED <<scorerVars, pageVars, db>>

\* endSession up to its second await: the attempts of the session are read
endSessionReads(i) ==
    /\ endSessionCalls[i].at = "findMany"
    /\ endSessionCalls' =
        [endSessionCalls EXCEPT
            ![i].at = "update",
            ![i].attempts = findManyAttempts(db, endSessionCalls[i].id)]
    /\ UNCHANGED <<scorerVars, pageVars, db>>

\* the end of endSession: the statistics are stored on the session
endSessionUpdates(i) ==
    /\ endSessionCalls[i].at = "update"
    /\ db' = updateSession(db, endSessionCalls[i].id,
                           endSessionCalls[i].attempts)
    /\ endSessionCalls' = [endSessionCalls EXCEPT ![i].at = "returned",
                                                  ![i].attempts = <<>>]
    /\ UNCHANGED <<scorerVars, pageVars>>

NextTherapy ==
    \/ \E userId \in Users : startSession(userId)
    \/ \E userId \in Users, id \in SessionIds, overallScore \in OverallScores :
        recordAttempt(userId, <<id>>, overallScore)
    \/ \E userId \in Users, overallScore \in OverallScores :
        recordAttempt(userId, <<>>, overallScore)
    \/ \E userId \in Users, id \in SessionIds : endSession(userId, id)
    \/ \E i \in 1..Len(endSessionCalls) : endSessionReads(i)
    \/ \E i \in 1..Len(endSessionCalls) : endSessionUpdates(i)

SpecTherapy == InitTherapy /\ [][NextTherapy]_vars

\* a call of endSession starts in this step
endSessionCalled == Len(endSessionCalls') = Len(endSessionCalls) + 1

\* the call that starts in this step
newCall == endSessionCalls'[Len(endSessionCalls')]

\* the caller of that call owns the session it names
callerOwnsSession ==
    /\ newCall.id \in 1..Len(db.TherapySession)
    /\ db.TherapySession[newCall.id].userId = newCall.userId

\* call i stores its statistics in this step
storesStatistics(i) ==
    /\ endSessionCalls[i].at = "update"
    /\ endSessionCalls'[i].at = "returned"

\* of the attempts call i read, those the owner of the session recorded
ownAttemptsRead(i) ==
    SelectSeq(endSessionCalls[i].attempts,
              LAMBDA a :
                a.userId = db.TherapySession[endSessionCalls[i].id].userId)

\* two averages are the same number
sameAverage(a, b) ==
    IF a = <<>> \/ b = <<>> THEN a = b ELSE a[1] * b[2] = b[1] * a[2]

\* C30: the exerciseCount and the averageScore that endSession stores on a
\* session are those of the attempts its owner had recorded when the call
\* read them, whatever other users recorded and whenever; and a call of
\* endSession by a user who does not own the session fails with "Session
\* not found" and changes no table.
C30_SessionStatisticsOfOwner ==
    /\ [][\A i \in 1..Len(endSessionCalls) :
            storesStatistics(i) =>
                LET session == db'.TherapySession[endSessionCalls[i].id]
                IN  /\ session.exerciseCount = Len(ownAttemptsRead(i))
                    /\ sameAverage(session.averageScore,
                                   averageScoreOf(ownAttemptsRead(i)))
         ]_vars
    /\ [][endSessionCalled =>
            /\ (newCall.error = SessionNotFound) <=> ~ callerOwnsSession
            /\ newCall.error = SessionNotFound =>
                   /\ db' = db
                   /\ newCall.at = "thrown"
         ]_vars

====
